---------------------------- MODULE Spec2Model ----------------------------
(***************************************************************************)
(* Model of helpmotion.py: the optical-flow colour encoder (flow2img,      *)
(* flow_to_color, flow_compute_color, make_colorwheel) and the batch       *)
(* driver that writes one image per frame and flow type.                   *)
(*                                                                         *)
(* Numbers.  A floating-point value is a sign and a magnitude, so that     *)
(* +0.0 and -0.0 are different values, as they are for numpy.  The fields  *)
(* the model draws have integral components and integral lengths, so       *)
(* np.sqrt is exact on them.  A normalized component u / (rad_max + 1e-5)  *)
(* is kept as the exact fraction (u * EpsInv) / den, den being             *)
(* rad_max * EpsInv + 1.  An angle divided by pi is kept in thousandths    *)
(* (AngleScale).  The rounding of float32 itself is modelled separately,   *)
(* in the part of the module that ends with SpecF32.                       *)
(***************************************************************************)
EXTENDS Integers, Sequences, FiniteSets, TLC

\* ------------------------------------------------------------ state
\* one call of flow2img or flow_to_color, in exact arithmetic
VARIABLES
    api,              \* "none", "flow2img" or "flow_to_color": the function called
    shape,            \* the shape of the tensor flow_to_color receives
    flow,             \* its data: flow_uv_numpy, one (u, v) per pixel
    max_mag, clip_flow, convert_to_bgr,   \* flow_to_color's arguments
    pc,               \* where the call is
    flow_uv,          \* the name flow_uv after line 70
    un, vn, den,      \* u and v after lines 82-83: numerators, and the divisor
    colorwheel,       \* colorwheel of flow_compute_color (line 104)
    k0, k1,           \* the arrays k0 and k1 (lines 111-113)
    color,            \* what flow_to_color returns
    img               \* what flow2img returns

callvars == <<api, shape, flow, max_mag, clip_flow, convert_to_bgr, pc, flow_uv,
              un, vn, den, colorwheel, k0, k1, color, img>>

\* one call of flow2img on a float32 field
VARIABLES
    f_pc,             \* where the float32 call is
    f_flow,           \* the field: (|u|, |v|) per pixel
    f_den,            \* rad_max + epsilon (line 82)
    f_un, f_vn,       \* |u|, |v| after lines 82-83
    f_rad,            \* rad of flow_compute_color (line 107)
    f_idx             \* idx = (rad <= 1) (line 122)

f32vars == <<f_pc, f_flow, f_den, f_un, f_vn, f_rad, f_idx>>

\* the batch driver (__main__)
VARIABLES
    b_pc,             \* "start", "our_flow", "T2C_flow" or "end"
    frames,           \* train_data["frames"]
    idx,              \* the loop index
    dir3d, dir2d,     \* the files of 3D_flow and 2D_flow: (name, image) pairs
    saved             \* every save_image call so far: [folder, name, frame, image]

batchvars == <<b_pc, frames, idx, dir3d, dir2d, saved>>

vars == <<callvars, f32vars, batchvars>>

\* ------------------------------------------------------------ bounds
MaxC == 2          \* largest |u|, |v| of an axis-aligned pixel
MaxPix == 2        \* most pixels (H * W) in a field
MaxMagArg == 2     \* explicit max_mag values are 0 .. MaxMagArg
MaxClip == 1       \* explicit clip_flow values are 1 .. MaxClip

\* ------------------------------------------------------------ numbers
EpsInv == 100000   \* 1 / epsilon, epsilon = 1e-5
AngleScale == 1000 \* an angle / pi is an integer number of 1/AngleScale

Float(s, m) == [s |-> s, m |-> m]
Neg(x) == [s |-> -x.s, m |-> x.m]
IsZero(x) == x.m = 0
Val(x) == x.s * x.m

MaxOf(S) == CHOOSE x \in S : \A y \in S : y <= x
MinOf(S) == CHOOSE x \in S : \A y \in S : x <= y

\* np.sqrt on a non-negative integer: exact on perfect squares (floor otherwise)
ISqrt(n) == CHOOSE r \in 0..n : r * r <= n /\ n < (r + 1) * (r + 1)

CeilDiv(a, b) == (a + b - 1) \div b

\* a/b < c/d for a, c >= 0 and b, d > 0, without forming a*d or c*b
RECURSIVE RatLess(_, _, _, _)
RatLess(a, b, c, d) ==
    LET qa == a \div b
        qc == c \div d
        ra == a % b
        rc == c % d
    IN  IF qa # qc THEN qa < qc
        ELSE IF rc = 0 THEN FALSE
        ELSE IF ra = 0 THEN TRUE
        ELSE RatLess(d, rc, b, ra)

\* ------------------------------------------------------------ make_colorwheel
RY == 15
YG == 6
GC == 4
CB == 11
BM == 13
MR == 6

Full == 255

\* Ramp with the quotient rounded up instead of down
Ramp_ceil(i, n) == (Full * i + n - 1) \div n

\* np.floor(255 * np.arange(0, n) / n) at position i
Ramp(i, n) == (Full * i) \div n

\* n values: a constant, the rising ramp, the falling ramp
Const(n, x) == [i \in 0..(n - 1) |-> x]
RampUp(n) == [i \in 0..(n - 1) |-> Ramp(i, n)]
RampDown(n) == [i \in 0..(n - 1) |-> Full - Ramp(i, n)]

\* colorwheel[lo:lo+n, ch] = vals, n the number of vals
SetSlice(cw, lo, ch, vals) ==
    [i \in DOMAIN cw |->
        IF (i - lo) \in DOMAIN vals THEN [cw[i] EXCEPT ![ch] = vals[i - lo]] ELSE cw[i]]

make_colorwheel ==
    LET ncols == RY + YG + GC + CB + BM + MR
        cw0 == [i \in 0..(ncols - 1) |-> [c \in 0..2 |-> 0]]
        \* RY
        a1 == SetSlice(cw0, 0, 0, Const(RY, Full))
        a2 == SetSlice(a1, 0, 1, RampUp(RY))
        c1 == 0 + RY
        \* YG
        b1 == SetSlice(a2, c1, 0, RampDown(YG))
        b2 == SetSlice(b1, c1, 1, Const(YG, Full))
        c2 == c1 + YG
        \* GC
        d1 == SetSlice(b2, c2, 1, Const(GC, Full))
        d2 == SetSlice(d1, c2, 2, RampUp(GC))
        c3 == c2 + GC
        \* CB
        e1 == SetSlice(d2, c3, 1, RampDown(CB))
        e2 == SetSlice(e1, c3, 2, Const(CB, Full))
        c4 == c3 + CB
        \* BM
        f1 == SetSlice(e2, c4, 2, Const(BM, Full))
        f2 == SetSlice(f1, c4, 0, RampUp(BM))
        c5 == c4 + BM
        \* MR
        g1 == SetSlice(f2, c5, 2, RampDown(MR))
        g2 == SetSlice(g1, c5, 0, Const(MR, Full))
    IN  g2

\* colorwheel.shape[0]
Rows(cw) == Cardinality(DOMAIN cw)


\* ------------------------------------------------------------ flow_compute_color
\* atan(y / x) / pi in [0, 1/2] for magnitudes y, x >= 0, in 1/AngleScale:
\* exact on the axes, np.arctan2's value rounded down on the directions of the
\* 3-4-5 triangle (atan(3/4)/pi = 0.2048..., atan(4/3)/pi = 0.2951...)
AtanTable == { <<3, 4, 204>>, <<4, 3, 295>> }

AtanFrac(y, x) ==
    IF y = 0 THEN 0
    ELSE IF x = 0 THEN AngleScale \div 2
    ELSE LET e == CHOOSE t \in AtanTable : y * t[2] = x * t[1] IN e[3]

\* Atan2OverPi with a zero y taken as +0 whatever its sign
Atan2OverPi_unsigned_zero(y, x) ==
    LET t == AtanFrac(y.m, x.m)
    IN  Float(IF y.m = 0 THEN 1 ELSE y.s, IF x.s = 1 THEN t ELSE AngleScale - t)

\* np.arctan2(y, x) / np.pi as a signed number of 1/AngleScale.  IEEE 754: the
\* result has the sign of y (of a zero y too), and lies beyond pi/2 when x is
\* negative (a negative zero too): arctan2(+0, -1) = pi, arctan2(-0, -1) = -pi.
Atan2OverPi(y, x) ==
    LET t == AtanFrac(y.m, x.m)
    IN  Float(y.s, IF x.s = 1 THEN t ELSE AngleScale - t)

\* a = np.arctan2(-v, -u) / np.pi
Angle(u, v) == Atan2OverPi(Neg(v), Neg(u))

\* fk = (a + 1) / 2 * (ncols - 1), as the numerator of a fraction over FkDen
FkDen == 2 * AngleScale
FkNum(a, ncols) == (AngleScale + Val(a)) * (ncols - 1)

\* k0 = np.floor(fk).astype(np.int32)
K0(a, ncols) == FkNum(a, ncols) \div FkDen

\* K1 wrapping to 0, as k1 % ncols would
K1_modulo(k, ncols) == (k + 1) % ncols

\* k1 = k0 + 1; k1[k1 == ncols] = 1
K1(k, ncols) == IF k + 1 = ncols THEN 1 ELSE k + 1

\* f = fk - k0, as a numerator over FkDen
Frac(a, ncols) == FkNum(a, ncols) - K0(a, ncols) * FkDen

\* rad = np.sqrt(np.square(u) + np.square(v)) of normalized u, v: the
\* numerator of the fraction over den
RadNum(u, v) == ISqrt(u.m * u.m + v.m * v.m) * EpsInv

\* InRange with the mask inverted
InRange_inverted(u, v, d) == RadNum(u, v) > d

\* idx = (rad <= 1)
InRange(u, v, d) == RadNum(u, v) <= d

\* col = (1 - f) * col0 + f * col1 with col0 = tmp[k0] / 255.0, col1 = tmp[k1] / 255.0:
\* the numerator of col over 255 * FkDen
Interp(c0, c1, f) == (FkDen - f) * c0 + f * c1

\* np.floor(255 * col) after col[idx] = 1 - rad[idx] * (1 - col[idx]):
\* 255 * col = 255 - (n / den) * (255 * FkDen - x) / FkDen
ShadeInRange(x, n, d) ==
    LET y == Full * FkDen - x
    IN  Full - CeilDiv(n * (y \div FkDen) + CeilDiv(n * (y % FkDen), FkDen), d)

\* np.floor(255 * col) after col[~idx] = col[~idx] * 0.75
ShadeOver(x) == (3 * x) \div (4 * FkDen)

\* the value of channel i of the colour wheel at one pixel
Channel(cw, i, u, v, d) ==
    LET ncols == Rows(cw)
        a == Angle(u, v)
        ka == K0(a, ncols)
        kb == K1(ka, ncols)
        x == Interp(cw[ka][i], cw[kb][i], Frac(a, ncols))
    IN  IF InRange(u, v, d) THEN ShadeInRange(x, RadNum(u, v), d)
        ELSE ShadeOver(x)

\* ChIdx that never reverses the channels
ChIdx_noswap(i, bgr) == i

\* ch_idx = 2 - i if convert_to_bgr else i
ChIdx(i, bgr) == IF bgr THEN 2 - i ELSE i

\* flow_image = np.zeros(...); for i in range(3): flow_image[:, :, ch_idx] = ...
\* (a later i overwrites an earlier one that wrote the same ch_idx)
PixelColor(cw, u, v, d, bgr) ==
    [c \in 0..2 |->
        LET writers == {i \in 0..2 : ChIdx(i, bgr) = c}
        IN  IF writers = {} THEN 0
            ELSE Channel(cw, MaxOf(writers), u, v, d)]

\* the arrays k0 and k1 of lines 111-113
K0s(cw, us, vs) == [p \in DOMAIN us |-> K0(Angle(us[p], vs[p]), Rows(cw))]
K1s(cw, us, vs) == [p \in DOMAIN us |-> K1(K0(Angle(us[p], vs[p]), Rows(cw)), Rows(cw))]

flow_compute_color(us, vs, d, bgr) ==
    LET cw == make_colorwheel
    IN  [p \in DOMAIN us |-> PixelColor(cw, us[p], vs[p], d, bgr)]

\* ------------------------------------------------------------ flow_to_color
None == << >>
Some(x) == << x >>

\* ShapeOk without the second assertion
ShapeOk_dim_only(shp) == Len(shp) = 4

\* assert flow_uv.dim() == 4 ; assert flow_uv.shape[1] == 2
ShapeOk(shp) == Len(shp) = 4 /\ shp[2] = 2

\* np.clip(x, 0, clip_flow) = minimum(maximum(x, 0), clip_flow)
Clip(x, lo, hi) ==
    IF Val(x) <= lo THEN Float(1, lo)
    ELSE IF Val(x) >= hi THEN Float(1, hi)
    ELSE x

ClipField(f, hi) == [p \in DOMAIN f |-> [u |-> Clip(f[p].u, 0, hi), v |-> Clip(f[p].v, 0, hi)]]

\* rad = np.sqrt(np.square(u) + np.square(v)) of one raw pixel
Rad(px) == ISqrt(px.u.m * px.u.m + px.v.m * px.v.m)

\* RadMax without lines 78-79
RadMax_ignores_max_mag(f, mm) == MaxOf({Rad(f[p]) : p \in DOMAIN f})

\* rad_max = np.max(rad); if max_mag is not None: rad_max = max_mag
RadMax(f, mm) ==
    IF mm # None THEN mm[1]
    ELSE MaxOf({Rad(f[p]) : p \in DOMAIN f})

\* rad_max + epsilon, in units of epsilon
Den(f, mm) == RadMax(f, mm) * EpsInv + 1

\* flow2img: np.clip(flow_uv, 0, 255).astype(np.uint8)
ClipImage(im) ==
    [p \in DOMAIN im |-> [c \in 0..2 |->
        IF im[p][c] < 0 THEN 0 ELSE IF im[p][c] > Full THEN Full ELSE im[p][c]]]

\* u = flow_uv_numpy[:, :, 0] ; v = flow_uv_numpy[:, :, 1]
UOf(f) == [p \in DOMAIN f |-> f[p].u]
VOf(f) == [p \in DOMAIN f |-> f[p].v]

\* flow_to_color(f, mm, cf, bgr) on a well-shaped tensor, as one function: cf
\* only rebinds flow_uv (line 70), which nothing reads afterwards
flow_to_color(f, mm, cf, bgr) == flow_compute_color(UOf(f), VOf(f), Den(f, mm), bgr)

\* flow2img(f) on a well-shaped tensor, as one function
flow2img(f) == ClipImage(flow_to_color(f, None, None, FALSE))

\* ------------------------------------------------------------ inputs
PZ == Float(1, 0)     \* +0.0
NZ == Float(-1, 0)    \* -0.0
Pix(u, v) == [u |-> u, v |-> v]

\* the pixel values a field is drawn from: zero vectors, axis-aligned vectors
\* of length 1 .. MaxC, and three vectors of the 3-4-5 triangle
Vecs ==
    {Pix(PZ, PZ), Pix(PZ, NZ), Pix(NZ, PZ)}
    \cup {Pix(Float(s, m), PZ) : s \in {1, -1}, m \in 1..MaxC}
    \cup {Pix(Float(1, m), NZ) : m \in 1..MaxC}
    \cup {Pix(PZ, Float(-1, m)) : m \in 1..MaxC}
    \cup {Pix(Float(1, 3), Float(1, 4)), Pix(Float(-1, 3), Float(1, 4)),
          Pix(Float(-1, 4), Float(-1, 3))}

\* [1, 2, 1, W] tensors and their data, flattened to H * W pixels
Fields == UNION {[1..w -> Vecs] : w \in 1..MaxPix}
GoodShape(f) == <<1, 2, 1, Len(f)>>

\* tensors flow_to_color rejects: three dimensions, five dimensions, and
\* four dimensions with dimension 1 of size 1 or 3
BadShapes == { <<2, 1, 1>>, <<1, 1, 2, 1, 1>>, <<1, 1, 1, 2>>, <<1, 3, 1, 1>> }

\* tensors flow2img's unsqueeze(0) turns into one of those: [H, W, 2] (the
\* layout its docstring names) and a tensor of two dimensions
BadShapes3 == { <<1, 1, 2>>, <<2, 1>> }

MaxMags == {None} \cup {Some(m) : m \in 0..MaxMagArg}
ClipFlows == {None} \cup {Some(c) : c \in 1..MaxClip}

\* ------------------------------------------------------------ one call

InitCall ==
    /\ api = "none" /\ shape = << >> /\ flow = << >>
    /\ max_mag = None /\ clip_flow = None /\ convert_to_bgr = FALSE
    /\ pc = "idle" /\ flow_uv = << >>
    /\ un = << >> /\ vn = << >> /\ den = 0
    /\ colorwheel = << >> /\ k0 = << >> /\ k1 = << >>
    /\ color = << >> /\ img = << >>

\* flow2img line 44-45: flow_uv.unsqueeze(0), then flow_to_color(flow_uv)
CallFlow2Img ==
    /\ pc = "idle"
    /\ \E f \in Fields :
        \E s3 \in {Tail(GoodShape(f))} \cup {b \in BadShapes3 : Len(f) = 1} :
            /\ shape' = <<1>> \o s3
            /\ flow' = f
    /\ api' = "flow2img"
    /\ max_mag' = None /\ clip_flow' = None /\ convert_to_bgr' = FALSE
    /\ pc' = "called"
    /\ UNCHANGED <<flow_uv, un, vn, den, colorwheel, k0, k1, color, img>>
    /\ UNCHANGED <<f32vars, batchvars>>

\* a direct call of flow_to_color(flow_uv, max_mag, clip_flow, convert_to_bgr)
CallFlowToColor ==
    /\ pc = "idle"
    /\ \E f \in Fields :
        \E s \in {GoodShape(f)} \cup {b \in BadShapes : Len(f) = 1} :
            /\ shape' = s
            /\ flow' = f
    /\ api' = "flow_to_color"
    /\ max_mag' \in MaxMags
    /\ clip_flow' \in ClipFlows
    /\ convert_to_bgr' \in BOOLEAN
    /\ pc' = "called"
    /\ UNCHANGED <<flow_uv, un, vn, den, colorwheel, k0, k1, color, img>>
    /\ UNCHANGED <<f32vars, batchvars>>

\* flow_to_color lines 62-63
CheckShape ==
    /\ pc = "called"
    /\ pc' = IF ShapeOk(shape) THEN "checked" ELSE "AssertionError"
    /\ UNCHANGED <<api, shape, flow, max_mag, clip_flow, convert_to_bgr, flow_uv,
                   un, vn, den, colorwheel, k0, k1, color, img>>
    /\ UNCHANGED <<f32vars, batchvars>>

\* flow_to_color lines 65-83: u and v are read from flow_uv_numpy, which was
\* taken from flow_uv before line 70 rebinds it to the clipped tensor
Normalize ==
    /\ pc = "checked"
    /\ flow_uv' = IF clip_flow # None THEN ClipField(flow, clip_flow[1]) ELSE flow
    /\ un' = UOf(flow)
    /\ vn' = VOf(flow)
    /\ den' = Den(flow, max_mag)
    /\ pc' = "normalized"
    /\ UNCHANGED <<api, shape, flow, max_mag, clip_flow, convert_to_bgr,
                   colorwheel, k0, k1, color, img>>
    /\ UNCHANGED <<f32vars, batchvars>>

\* flow_to_color lines 85-89
ComputeColor ==
    /\ pc = "normalized"
    /\ colorwheel' = make_colorwheel
    /\ k0' = K0s(make_colorwheel, un, vn)
    /\ k1' = K1s(make_colorwheel, un, vn)
    /\ color' = flow_compute_color(un, vn, den, convert_to_bgr)
    /\ pc' = "returned"
    /\ UNCHANGED <<api, shape, flow, max_mag, clip_flow, convert_to_bgr, flow_uv,
                   un, vn, den, img>>
    /\ UNCHANGED <<f32vars, batchvars>>

\* flow2img lines 46-48
Flow2ImgReturn ==
    /\ pc = "returned" /\ api = "flow2img"
    /\ img' = ClipImage(color)
    /\ pc' = "done"
    /\ UNCHANGED <<api, shape, flow, max_mag, clip_flow, convert_to_bgr, flow_uv,
                   un, vn, den, colorwheel, k0, k1, color>>
    /\ UNCHANGED <<f32vars, batchvars>>

\* ------------------------------------------------------------ float32
\* A finite float32 magnitude is m * 2^e with m = 0 or 2^23 <= m < 2^24; every
\* operation rounds its exact result to nearest, ties to even (IEEE 754
\* binary32, as numpy computes on float32 arrays).  Products of two mantissas
\* are formed in halves of 12 bits so that no intermediate exceeds 31 bits.
Two12 == 2^12
Two23 == 2^23
Two24 == 2^24

F32(m, e) == [m |-> m, e |-> e]
F32Zero == F32(0, 0)
F32One == F32(Two23, -23)

\* q with the remainder rem out of 2 * half discarded (sticky: more was
\* discarded below rem), rounded to nearest even and renormalized
RoundPack(q, rem, half, sticky, e) ==
    LET up == \/ rem > half
              \/ rem = half /\ sticky
              \/ rem = half /\ ~sticky /\ q % 2 = 1
        r == IF up THEN q + 1 ELSE q
    IN  IF r = Two24 THEN F32(Two23, e + 1) ELSE F32(r, e)

F32Mul(a, b) ==
    IF a.m = 0 \/ b.m = 0 THEN F32Zero
    ELSE LET ah == a.m \div Two12
             al == a.m % Two12
             bh == b.m \div Two12
             bl == b.m % Two12
             mid == ah * bl + al * bh
             t == al * bl + (mid % Two12) * Two12
             lo == t % Two24
             hi == ah * bh + mid \div Two12 + t \div Two24
         IN  IF hi >= Two23
             THEN RoundPack(hi, lo, Two23, FALSE, a.e + b.e + 24)
             ELSE RoundPack(2 * hi + lo \div Two23, lo % Two23, Two23 \div 2, FALSE,
                            a.e + b.e + 23)

F32Add(a, b) ==
    IF a.m = 0 THEN b
    ELSE IF b.m = 0 THEN a
    ELSE LET x == IF a.e >= b.e THEN a ELSE b
             y == IF a.e >= b.e THEN b ELSE a
             k == x.e - y.e
         IN  IF k > 26 THEN x
             ELSE LET sum == 8 * x.m + (8 * y.m) \div 2^k
                      sticky == (8 * y.m) % 2^k # 0
                  IN  IF sum >= 8 * Two24
                      THEN RoundPack(sum \div 16, sum % 16, 8, sticky, x.e + 1)
                      ELSE RoundPack(sum \div 8, sum % 8, 4, sticky, x.e)

\* n more quotient bits of r / d for r < d
RECURSIVE DivBits(_, _, _, _)
DivBits(r, d, n, q) ==
    IF n = 0 THEN <<q, r>>
    ELSE IF 2 * r >= d THEN DivBits(2 * r - d, d, n - 1, 2 * q + 1)
    ELSE DivBits(2 * r, d, n - 1, 2 * q)

F32Div(a, b) ==
    IF a.m = 0 THEN F32Zero
    ELSE LET qr == IF a.m >= b.m THEN DivBits(a.m - b.m, b.m, 23, 1)
                   ELSE DivBits(a.m, b.m, 24, 0)
             e == IF a.m >= b.m THEN a.e - b.e - 23 ELSE a.e - b.e - 24
         IN  RoundPack(qr[1], 2 * qr[2], b.m, FALSE, e)

\* the integer square root, two bits at a time, of the number whose base-4
\* digits are those of top (n of them) followed by z zeros: <<root, remainder>>
RECURSIVE SqrtBits(_, _, _, _, _)
SqrtBits(top, n, z, root, rem) ==
    IF n = 0 /\ z = 0 THEN <<root, rem>>
    ELSE LET pair == IF n > 0 THEN (top \div 4^(n - 1)) % 4 ELSE 0
             r == 4 * rem + pair
             trial == 4 * root + 1
         IN  IF r >= trial
             THEN SqrtBits(top, IF n > 0 THEN n - 1 ELSE 0, IF n > 0 THEN z ELSE z - 1,
                           2 * root + 1, r - trial)
             ELSE SqrtBits(top, IF n > 0 THEN n - 1 ELSE 0, IF n > 0 THEN z ELSE z - 1,
                           2 * root, r)

F32Sqrt(a) ==
    IF a.m = 0 THEN F32Zero
    ELSE LET even == a.e % 2 = 0
             rr == IF even THEN SqrtBits(a.m, 12, 12, 0, 0)
                   ELSE SqrtBits(2 * a.m, 13, 11, 0, 0)
             e == IF even THEN (a.e - 24) \div 2 ELSE (a.e - 23) \div 2
         IN  IF rr[2] > rr[1] THEN RoundPack(rr[1] + 1, 0, 1, FALSE, e)
             ELSE F32(rr[1], e)

F32Leq(a, b) ==
    IF a.m = 0 THEN TRUE
    ELSE IF b.m = 0 THEN FALSE
    ELSE a.e < b.e \/ (a.e = b.e /\ a.m <= b.m)

\* the float32 nearest a non-negative integer below 2^24 (exact)
RECURSIVE Normalized(_, _)
Normalized(m, e) == IF m >= Two23 THEN F32(m, e) ELSE Normalized(2 * m, e - 1)
F32OfInt(n) == IF n = 0 THEN F32Zero ELSE Normalized(n, 0)

\* np.float32(1e-5) = 10995116 * 2^-40
F32Eps == F32(10995116, -40)

\* np.sqrt(np.square(u) + np.square(v)) on float32 values
F32Rad(u, v) == F32Sqrt(F32Add(F32Mul(u, u), F32Mul(v, v)))

\* np.max over float32 values
F32Max(S) == CHOOSE x \in S : \A y \in S : F32Leq(y, x)

\* the (|u|, |v|) a float32 field is drawn from: integers, exact in float32
F32Coords == { <<0, 0>>, <<1, 0>>, <<3, 4>>, <<0, 2>>, <<100, 0>>, <<300, 0>>,
               <<9, 265>>, <<41, 262>>, <<200, 1>> }
F32Fields == UNION {[1..w -> F32Coords] : w \in 1..MaxPix}


InitF32 ==
    /\ f_pc = "idle" /\ f_flow = << >> /\ f_den = F32Zero
    /\ f_un = << >> /\ f_vn = << >> /\ f_rad = << >> /\ f_idx = << >>

\* flow2img(field) on a float32 tensor: flow_to_color with max_mag = None
F32Call ==
    /\ f_pc = "idle"
    /\ f_flow' \in F32Fields
    /\ f_pc' = "called"
    /\ UNCHANGED <<f_den, f_un, f_vn, f_rad, f_idx>>
    /\ UNCHANGED <<callvars, batchvars>>

\* flow_to_color lines 72-83 in float32
F32Normalize ==
    /\ f_pc = "called"
    /\ LET u == [p \in DOMAIN f_flow |-> F32OfInt(f_flow[p][1])]
           v == [p \in DOMAIN f_flow |-> F32OfInt(f_flow[p][2])]
           rad_max == F32Max({F32Rad(u[p], v[p]) : p \in DOMAIN f_flow})
           d == F32Add(rad_max, F32Eps)
       IN  /\ f_den' = d
           /\ f_un' = [p \in DOMAIN f_flow |-> F32Div(u[p], d)]
           /\ f_vn' = [p \in DOMAIN f_flow |-> F32Div(v[p], d)]
    /\ f_pc' = "normalized"
    /\ UNCHANGED <<f_flow, f_rad, f_idx>>
    /\ UNCHANGED <<callvars, batchvars>>

\* flow_compute_color lines 107 and 122 in float32
F32Shade ==
    /\ f_pc = "normalized"
    /\ f_rad' = [p \in DOMAIN f_un |-> F32Rad(f_un[p], f_vn[p])]
    /\ f_idx' = [p \in DOMAIN f_un |-> F32Leq(F32Rad(f_un[p], f_vn[p]), F32One)]
    /\ f_pc' = "shaded"
    /\ UNCHANGED <<f_flow, f_den, f_un, f_vn>>
    /\ UNCHANGED <<callvars, batchvars>>

\* ------------------------------------------------------------ __main__
MaxFrames == 11    \* most frames in train_data["frames"]

\* str(n): the decimal digits of n
RECURSIVE Str(_)
Str(n) == IF n < 10 THEN <<n>> ELSE Str(n \div 10) \o <<n % 10>>

\* s.zfill(w)
RECURSIVE ZFill(_, _)
ZFill(s, w) == IF Len(s) >= w THEN s ELSE ZFill(<<0>> \o s, w)

NameWidth == 3

\* FileName built from the last digit of the index only
FileName_last_digit(i) == ZFill(Str(i % 10), NameWidth)

\* str(idx).zfill(3) (+ '.png')
FileName(i) == ZFill(Str(i), NameWidth)

\* the two frames a batch is made of: frame["our_flow"][0][0] and
\* frame["T2C_flow"][0][0] as [2, 1, 1] fields
FieldA == << Pix(Float(1, 1), PZ) >>
FieldB == << Pix(PZ, Float(-1, 2)) >>
FrameA == [our_flow |-> FieldA, T2C_flow |-> FieldB]
FrameB == [our_flow |-> FieldB, T2C_flow |-> FieldA]

\* the batches of n frames: all FrameA, all FrameB, and the two alternations
Batches(n) ==
    {[i \in 1..n |-> FrameA], [i \in 1..n |-> FrameB],
     [i \in 1..n |-> IF i % 2 = 0 THEN FrameA ELSE FrameB],
     [i \in 1..n |-> IF i % 2 = 1 THEN FrameA ELSE FrameB]}

\* save_image(image, path): the file at path is replaced
SaveImage(dir, name, image) == {e \in dir : e[1] # name} \cup {<<name, image>>}


InitBatch ==
    /\ b_pc = "start" /\ frames = << >> /\ idx = 0
    /\ dir3d = {} /\ dir2d = {} /\ saved = << >>

\* lines 194-202: torch.load and the two os.makedirs
Load ==
    /\ b_pc = "start"
    /\ \E n \in 0..MaxFrames : frames' \in Batches(n)
    /\ b_pc' = "our_flow"
    /\ UNCHANGED <<idx, dir3d, dir2d, saved>>
    /\ UNCHANGED <<callvars, f32vars>>

\* lines 204-208: one iteration of the first loop
SaveOurFlow ==
    /\ b_pc = "our_flow" /\ idx < Len(frames)
    /\ LET viz_flow == flow2img(frames[idx + 1].our_flow)
           name == FileName(idx)
       IN  /\ dir3d' = SaveImage(dir3d, name, viz_flow)
           /\ saved' = Append(saved, [folder |-> "3D_flow", name |-> name,
                                      frame |-> idx, image |-> viz_flow])
    /\ idx' = idx + 1
    /\ UNCHANGED <<b_pc, frames, dir2d>>
    /\ UNCHANGED <<callvars, f32vars>>

\* line 209: the first loop is over
EndOurFlow ==
    /\ b_pc = "our_flow" /\ idx = Len(frames)
    /\ b_pc' = "T2C_flow" /\ idx' = 0
    /\ UNCHANGED <<frames, dir3d, dir2d, saved>>
    /\ UNCHANGED <<callvars, f32vars>>

\* lines 212-216: one iteration of the second loop
SaveT2CFlow ==
    /\ b_pc = "T2C_flow" /\ idx < Len(frames)
    /\ LET viz_flow == flow2img(frames[idx + 1].T2C_flow)
           name == FileName(idx)
       IN  /\ dir2d' = SaveImage(dir2d, name, viz_flow)
           /\ saved' = Append(saved, [folder |-> "2D_flow", name |-> name,
                                      frame |-> idx, image |-> viz_flow])
    /\ idx' = idx + 1
    /\ UNCHANGED <<b_pc, frames, dir3d>>
    /\ UNCHANGED <<callvars, f32vars>>

\* line 217: the second loop is over
EndT2CFlow ==
    /\ b_pc = "T2C_flow" /\ idx = Len(frames)
    /\ b_pc' = "end"
    /\ UNCHANGED <<frames, idx, dir3d, dir2d, saved>>
    /\ UNCHANGED <<callvars, f32vars>>

\* ------------------------------------------------------------ specifications
Init == InitCall /\ InitF32 /\ InitBatch

\* one call of flow2img or flow_to_color, in exact arithmetic
Next == CallFlow2Img \/ CallFlowToColor \/ CheckShape \/ Normalize
        \/ ComputeColor \/ Flow2ImgReturn
Spec == Init /\ [][Next]_vars

\* one call of flow2img on a float32 field
NextF32 == F32Call \/ F32Normalize \/ F32Shade
SpecF32 == Init /\ [][NextF32]_vars

\* the batch driver
NextBatch == Load \/ SaveOurFlow \/ EndOurFlow \/ SaveT2CFlow \/ EndT2CFlow
SpecBatch == Init /\ [][NextBatch]_vars

\* ------------------------------------------------------------ properties
Row(r, g, b) == [c \in 0..2 |-> IF c = 0 THEN r ELSE IF c = 1 THEN g ELSE b]
Abs(x) == IF x < 0 THEN -x ELSE x
Entered == pc \in {"normalized", "returned", "done"}
Returned == pc \in {"returned", "done"}

\* C1: the colour wheel flow_compute_color builds has exactly 55 entries of 3
\* channels, every channel an integer in [0,255], in six contiguous segments
\* of lengths 15, 6, 4, 11, 13, 6: red to yellow, yellow to green, green to
\* cyan, cyan to blue, blue to magenta, magenta to red, each a floor ramp.
C1_Colorwheel ==
    colorwheel # << >> =>
        /\ DOMAIN colorwheel = 0..54
        /\ \A k \in DOMAIN colorwheel :
            DOMAIN colorwheel[k] = 0..2 /\ \A c \in 0..2 : colorwheel[k][c] \in 0..255
        /\ \A i \in 0..14 : colorwheel[i] = Row(255, (255 * i) \div 15, 0)
        /\ \A i \in 0..5 : colorwheel[15 + i] = Row(255 - (255 * i) \div 6, 255, 0)
        /\ \A i \in 0..3 : colorwheel[21 + i] = Row(0, 255, (255 * i) \div 4)
        /\ \A i \in 0..10 : colorwheel[25 + i] = Row(0, 255 - (255 * i) \div 11, 255)
        /\ \A i \in 0..12 : colorwheel[36 + i] = Row((255 * i) \div 13, 0, 255)
        /\ \A i \in 0..5 : colorwheel[49 + i] = Row(255, 0, 255 - (255 * i) \div 6)
C1_Witness == pc = "returned" /\ colorwheel # << >>

\* a field with u = 1 and v = 0 (of either sign) at every pixel, encoded with
\* the scale of its own maximum and in RGB order
PureHorizontal ==
    /\ flow # << >> /\ max_mag = None /\ ~convert_to_bgr
    /\ \A p \in DOMAIN flow : flow[p].u = Float(1, 1) /\ IsZero(flow[p].v)
NearEntry(px, entry) == \A c \in 0..2 : Abs(px[c] - entry[c]) <= 1

ZeroField == flow # << >> /\ \A p \in DOMAIN flow : IsZero(flow[p].u) /\ IsZero(flow[p].v)

\* C3: flow2img of a field that is zero at every pixel returns an image that
\* is (255,255,255) at every pixel: the divisor is epsilon, not zero, rad is 0
\* everywhere and every pixel takes the rad <= 1 branch.
C3_ZeroIsWhite ==
    (api = "flow2img" /\ ZeroField /\ ShapeOk(shape)) =>
        /\ pc # "AssertionError"
        /\ Entered => /\ den = 1
                      /\ \A p \in DOMAIN flow :
                            RadNum(un[p], vn[p]) = 0 /\ InRange(un[p], vn[p], den)
        /\ pc = "done" => /\ DOMAIN img = DOMAIN flow
                          /\ \A p \in DOMAIN img : img[p] = Row(255, 255, 255)
C3_Witness ==
    /\ pc = "done" /\ api = "flow2img" /\ ZeroField /\ Len(flow) > 1
    /\ \E p \in DOMAIN flow : flow[p].v = NZ

\* C4 as stated: with a clip_flow, the u and v that the radius and the
\* normalized flow are computed from are the raw values clamped into
\* [0, clip_flow].
C4_ClipApplied ==
    (Entered /\ clip_flow # None) =>
        LET clipped == ClipField(flow, clip_flow[1])
        IN  /\ \A p \in DOMAIN flow :
                    /\ Val(un[p]) = Val(clipped[p].u) /\ Val(un[p]) \in 0..clip_flow[1]
                    /\ Val(vn[p]) = Val(clipped[p].v) /\ Val(vn[p]) \in 0..clip_flow[1]
            /\ den = Den(clipped, max_mag)

Swap02(image) == [p \in DOMAIN image |-> Row(image[p][2], image[p][1], image[p][0])]

\* C5: the image flow_compute_color returns with convert_to_bgr is the image
\* it returns without, channels 0 and 2 exchanged and channel 1 unchanged.
C5_ChannelSwap ==
    Returned => color = Swap02(flow_compute_color(un, vn, den, ~convert_to_bgr))
C5_Witness ==
    /\ pc = "returned" /\ convert_to_bgr
    /\ \E p \in DOMAIN color : color[p][0] # color[p][2]

\* an explicit max_mag below the largest magnitude of the field
LowerCap == flow # << >> /\ max_mag # None /\ max_mag[1] < RadMax(flow, None)

Digits3(i) == << i \div 100, (i \div 10) % 10, i % 10 >>

\* C7: the driver saves the frames in array order, our_flow first and T2C_flow
\* after; every save of frame i goes to the name i zero-padded to 3 digits and
\* holds the encoding of frame i's field for that folder; no two saves into
\* one folder share a name; at the end each folder holds exactly one file per
\* frame.
C7_OneFilePerFrame ==
    LET n == Len(frames)
    IN  /\ \A k \in DOMAIN saved :
            LET r == saved[k]
            IN  /\ r.folder = IF k <= n THEN "3D_flow" ELSE "2D_flow"
                /\ r.frame = IF k <= n THEN k - 1 ELSE k - n - 1
                /\ r.name = Digits3(r.frame)
                /\ r.image = IF k <= n THEN flow2img(frames[r.frame + 1].our_flow)
                             ELSE flow2img(frames[r.frame + 1].T2C_flow)
        /\ \A j, k \in DOMAIN saved :
            (j # k /\ saved[j].folder = saved[k].folder) => saved[j].name # saved[k].name
        /\ b_pc = "end" =>
            /\ Len(saved) = 2 * n
            /\ dir3d = {<<Digits3(i), flow2img(frames[i + 1].our_flow)>> : i \in 0..(n - 1)}
            /\ dir2d = {<<Digits3(i), flow2img(frames[i + 1].T2C_flow)>> : i \in 0..(n - 1)}
            /\ Cardinality(dir3d) = n /\ Cardinality(dir2d) = n
C7_Witness ==
    /\ b_pc = "end" /\ Len(frames) > 10
    /\ frames[1] # frames[2]

C9_Indices ==
    Returned =>
        \A p \in DOMAIN un :
            /\ Val(Angle(un[p], vn[p])) \in (-AngleScale)..AngleScale
            /\ k0[p] \in 0..54 /\ k0[p] \in DOMAIN colorwheel
            /\ k1[p] \in 1..54 /\ k1[p] \in DOMAIN colorwheel
            /\ k1[p] = IF k0[p] = 54 THEN 1 ELSE k0[p] + 1
C9_Witness ==
    /\ pc = "returned"
    /\ \E p, q \in DOMAIN un : k0[p] = 54 /\ k1[p] = 1 /\ k0[q] = 0 /\ k1[q] = 1

\* C10 as stated: with the scale of the field's own maximum (flow2img, max_mag
\* not given), no pixel has rad > 1 and none takes the rad > 1 branch; here on
\* float32 data, the type of the tensors flow2img is given.
C10_NeverOverRange ==
    f_pc = "shaded" => \A p \in DOMAIN f_rad : f_idx[p] /\ F32Leq(f_rad[p], F32One)

=============================================================================
